---- MODULE Spec2Model ----
(***************************************************************************)
(* Model of acutter's manifest reconciliation (merge_old_new) and of its   *)
(* TOML serializer (CustomEncoder.dump_list, dumps), src/acutter/cli.py.   *)
(***************************************************************************)
EXTENDS Integers, Sequences, FiniteSets, TLC

VARIABLES
    pc,         \* position of the run: "loaded" (cli.py:325 done) or "merged"
    oldtoml,    \* the OLD document (cli.py:198)
    template,   \* NEW as loaded from inputfile (cli.py:325), kept for comparison
    newtoml,    \* the working copy of NEW that merge_old_new edits in place
    updated,    \* the change count (cli.py:324)
    raised,     \* exception that left merge_old_new ("none" when it returned)
    inputfile,  \* the manifest on disk: the document it holds and the writes made
    rounds,     \* number of merges run again on the merged document
    heap,       \* the table objects of the document given to dumps
    dpc,        \* "build" while the document is put together, then "dumped"
    out,        \* what dumps gave: the exception raised and the text returned
    value,      \* the array given to CustomEncoder.dump_list
    lpc,        \* "ready" before dump_list has run, then "rendered"
    rendered    \* the string dump_list returned

mvars == <<pc, oldtoml, template, newtoml, updated, raised, inputfile, rounds>>
dvars == <<heap, dpc, out>>
lvars == <<value, lpc, rendered>>
vars == <<mvars, dvars, lvars>>

----------------------------------------------------------------------------
(* Bounds of the model *)

MaxDeps == 2
MaxScripts == 2
MaxRounds == 2
MaxArray == 3
MaxNested == 2
MaxTables == 4
MaxEntries == 5
RecursionLimit == 6

----------------------------------------------------------------------------
(* Dependency specifier strings and pkg_resources                           *)

\* A specifier string: the package name, the version it pins, and whether
\* it is written in packaging's own rendering ("a==1") or not ("a == 1").
Dep(n, v, r) == [name |-> n, ver |-> v, raw |-> r]

DepStrings ==
    {Dep("a", 1, FALSE), Dep("a", 2, TRUE), Dep("b", 1, FALSE), Dep("c", 1, TRUE)}

\* pkg_resources.parse_requirements: one Requirement per string; .name is
\* the name as written, the formatting of the string is not kept.
parse_requirements(strs) ==
    [i \in 1..Len(strs) |-> [name |-> strs[i].name, ver |-> strs[i].ver]]

\* str(dep): packaging renders the requirement in its own format.
StrReq(dep) == Dep(dep.name, dep.ver, FALSE)

ReqNames(reqs) == {reqs[i].name : i \in 1..Len(reqs)}

RECURSIVE FilterMap(_, _, _)
\* [str(dep) for dep in reqs if (dep.name in keys) = want]
FilterMap(reqs, keys, want) ==
    IF reqs = <<>> THEN <<>>
    ELSE LET rest == FilterMap(Tail(reqs), keys, want)
         IN  IF (Head(reqs).name \in keys) = want
             THEN <<StrReq(Head(reqs))>> \o rest
             ELSE rest

----------------------------------------------------------------------------
(* Documents: nested tables, a table is a function from its keys           *)

DepGetters ==
    << <<"project", "dependencies">>,
       <<"project", "optional-dependencies", "dev">>,
       <<"project", "optional-dependencies", "docs">> >>

ScriptGetters ==
    << <<"xsetup", "entry_points", "console_scripts">>,
       <<"xsetup", "console_scripts">> >>

RECURSIVE Getter(_, _)
\* x[k1][k2]...: the value, or KeyError when a key of the chain is missing
Getter(x, path) ==
    IF path = <<>> THEN [ok |-> TRUE, val |-> x]
    ELSE IF Head(path) \in DOMAIN x
         THEN Getter(x[Head(path)], Tail(path))
         ELSE [ok |-> FALSE, val |-> "KeyError"]

RECURSIVE SetList(_, _, _)
\* the list object at path gets new contents (clear / extend / append)
SetList(x, path, val) ==
    IF path = <<>> THEN val
    ELSE [x EXCEPT ![Head(path)] = SetList(x[Head(path)], Tail(path), val)]

----------------------------------------------------------------------------
(* merge_old_new                                                            *)

\* A merge without the filter of cli.py:342: every NEW entry is kept
to_keep_all(old, new) == FilterMap(new, ReqNames(new), TRUE)

\* cli.py:340-343, for dep in new: if dep.name in oldkeys: append(str(dep))
to_keep(old, new) == FilterMap(new, ReqNames(old), TRUE)

\* A merge without the test of cli.py:351: every OLD entry is appended
added_back_all(old, new) == FilterMap(old, {}, FALSE)

\* cli.py:350-353, for dep in old: if dep.name not in newkeys: append(str(dep))
added_back(old, new) == FilterMap(old, ReqNames(new), FALSE)

\* A merge that rewrites the field whether or not an entry was dropped
replace_always(keep, new) == TRUE

\* cli.py:345, the kept list replaces the field only when it is shorter
replace_needed(keep, new) == Len(keep) # Len(new)

\* The body of the try block of the first loop.  st is the state of the
\* call: the working copy of NEW, the change count, the exception raised.
DepBody(old_doc, st, getter) ==
    LET og == Getter(old_doc, getter) IN
    IF ~og.ok THEN [st EXCEPT !.raised = "KeyError"]
    ELSE
    LET ng == Getter(st.doc, getter) IN
    IF ~ng.ok THEN [st EXCEPT !.raised = "KeyError"]
    ELSE
    LET old  == parse_requirements(og.val)
        new  == parse_requirements(ng.val)
        keep == to_keep(old, new)
        kept == IF replace_needed(keep, new) THEN keep ELSE ng.val
        n1   == IF replace_needed(keep, new) THEN Len(keep) ELSE 0
        back == added_back(old, new)
    IN  [doc     |-> SetList(st.doc, getter, kept \o back),
         updated |-> st.updated + n1 + Len(back),
         raised  |-> "none"]

\* The loop body without its except clause: KeyError leaves the loop
DepNoCatch(old_doc, st, getter) == DepBody(old_doc, st, getter)

\* try: ... except KeyError: pass
DepTry(old_doc, st, getter) ==
    LET r == DepBody(old_doc, st, getter)
    IN  IF r.raised = "KeyError" THEN [r EXCEPT !.raised = "none"] ELSE r

RECURSIVE DepLoop(_, _, _)
\* for getter in (...): an exception that leaves an iteration ends the loop
DepLoop(old_doc, st, getters) ==
    IF getters = <<>> \/ st.raised # "none" THEN st
    ELSE DepLoop(old_doc, DepTry(old_doc, st, Head(getters)), Tail(getters))

RECURSIVE PyStrItems(_)
PyStrItems(list) ==
    IF list = <<>> THEN <<>>
    ELSE IF Len(list) = 1 THEN <<"'", list[1], "'">>
    ELSE <<"'", list[1], "'", ", ">> \o PyStrItems(Tail(list))

\* str(list): the bracketed, comma separated reprs of the elements
PyStr(list) == <<"[">> \o PyStrItems(list) \o <<"]">>

\* The replacement without new.clear()
extend_only(new, old) == new \o old

\* cli.py:366-367, new.clear(); new.extend(old)
clear_extend(new, old) == old

ScriptBody(old_doc, st, getter) ==
    LET og == Getter(old_doc, getter) IN
    IF ~og.ok THEN [st EXCEPT !.raised = "KeyError"]
    ELSE
    LET ng == Getter(st.doc, getter) IN
    IF ~ng.ok THEN [st EXCEPT !.raised = "KeyError"]
    ELSE IF PyStr(og.val) # PyStr(ng.val)
         THEN [st EXCEPT !.doc = SetList(st.doc, getter, clear_extend(ng.val, og.val))]
         ELSE st

ScriptTry(old_doc, st, getter) ==
    LET r == ScriptBody(old_doc, st, getter)
    IN  IF r.raised = "KeyError" THEN [r EXCEPT !.raised = "none"] ELSE r

RECURSIVE ScriptLoop(_, _, _)
ScriptLoop(old_doc, st, getters) ==
    IF getters = <<>> \/ st.raised # "none" THEN st
    ELSE ScriptLoop(old_doc, ScriptTry(old_doc, st, Head(getters)), Tail(getters))

\* cli.py:372, only if changed, to preserve potential comments otherwise
should_write(st) == st.updated > 0

\* The whole call on OLD and the document loaded from inputfile: the merged
\* working copy, the change count, and what is on disk afterwards.
merge_old_new(old_doc, file) ==
    LET st0 == [doc |-> file.doc, updated |-> 0, raised |-> "none"]
        st1 == DepLoop(old_doc, st0, DepGetters)
        st2 == ScriptLoop(old_doc, st1, ScriptGetters)
    IN  [doc     |-> st2.doc,
         updated |-> st2.updated,
         raised  |-> st2.raised,
         file    |-> IF st2.raised = "none" /\ should_write(st2)
                     THEN [doc |-> st2.doc, writes |-> file.writes + 1]
                     ELSE file]

----------------------------------------------------------------------------
(* Input documents                                                          *)

None == [some |-> FALSE]
Some(v) == [some |-> TRUE, val |-> v]
Opt(S) == {None} \cup {Some(v) : v \in S}

Lists(S, n) == UNION {[1..k -> S] : k \in 0..n}

NoKeys == [k \in {} |-> k]
Key(k, o) == IF o.some THEN k :> o.val ELSE NoKeys

\* [project.optional-dependencies] with its dev and docs groups, if any
OptDepsTable(dev, docs) ==
    ("test" :> <<>>) @@ Key("dev", dev) @@ Key("docs", docs)

\* [project]
ProjectTable(deps, opt) ==
    ("name" :> "pkg") @@ Key("dependencies", deps) @@ Key("optional-dependencies", opt)

\* [xsetup.entry_points]
EntryPointsTable(cs) == ("gui_scripts" :> <<>>) @@ Key("console_scripts", cs)

\* [xsetup]
XsetupTable(ep, cs) ==
    ("scripts" :> <<>>) @@ Key("entry_points", ep) @@ Key("console_scripts", cs)

Document(project, xsetup) ==
    ("build-system" :> "setuptools") @@ Key("project", project) @@ Key("xsetup", xsetup)

ScriptStrings == {"cmd=pkg:main", "cmd2=pkg:other"}

Projects(D1, D2, D3) ==
    {ProjectTable(d, o) :
        d \in Opt(D1),
        o \in Opt({OptDepsTable(dv, dc) : dv \in Opt(D2), dc \in Opt(D3)})}

Xsetups(S1, S2) ==
    {XsetupTable(e, c) :
        e \in Opt({EntryPointsTable(s) : s \in Opt(S1)}), c \in Opt(S2)}

Documents(P, X) == {Document(p, x) : p \in Opt(P), x \in Opt(X)}

\* Every tracked field missing at any depth, or a short list
FewDeps == {<<>>, <<Dep("a", 1, FALSE)>>}
FewScripts == {<<"cmd=pkg:main">>, <<"cmd2=pkg:other">>}
AnyShapeDocs ==
    Documents(Projects(FewDeps, FewDeps, FewDeps), Xsetups(FewScripts, FewScripts))

\* Dependency lists of up to MaxDeps specifiers, same names and several
\* entries of one name included
RichDeps == Lists(DepStrings, MaxDeps)

DepsDoc(d1, d2, d3) ==
    Document(Some(ProjectTable(Some(d1), Some(OptDepsTable(Some(d2), Some(d3))))), None)

\* One of the three dependency fields is any list of RichDeps
FocusDocs(g, other) ==
    {CASE g = 1 -> DepsDoc(l, other, other)
       [] g = 2 -> DepsDoc(other, l, other)
       [] g = 3 -> DepsDoc(other, other, l) : l \in RichDeps}

\* Script entries of up to MaxScripts strings at both locations
RichScripts == Lists(ScriptStrings, MaxScripts)

\* One of the two script locations is any list of RichScripts
ScriptDocs(g, deps, other) ==
    {Document(Some(ProjectTable(Some(deps), None)),
              Some(CASE g = 1 -> XsetupTable(Some(EntryPointsTable(Some(l))), other)
                     [] g = 2 -> XsetupTable(Some(EntryPointsTable(other)), Some(l))))
        : l \in RichScripts}

SelfDocs ==
    AnyShapeDocs
    \cup UNION {ScriptDocs(g, d, o) : g \in 1..2, d \in FewDeps, o \in Opt(FewScripts)}
    \cup {DepsDoc(d1, d2, d3) : d1 \in RichDeps, d2 \in RichDeps, d3 \in FewDeps}

----------------------------------------------------------------------------
(* The run                                                                  *)

TypeOK ==
    /\ pc \in {"idle", "loaded", "merged"}
    /\ dpc \in {"idle", "build", "dumped"}
    /\ lpc \in {"idle", "ready", "rendered"}

\* No array is being rendered
ListIdle ==
    /\ value = <<>>
    /\ lpc = "idle"
    /\ rendered = <<>>

\* No document is being serialized
DumpIdle ==
    /\ heap = <<>>
    /\ dpc = "idle"
    /\ out = [err |-> "none", text |-> <<>>]

\* No manifest is being reconciled
MergeIdle ==
    /\ pc = "idle"
    /\ oldtoml = NoKeys
    /\ template = NoKeys
    /\ newtoml = NoKeys
    /\ updated = 0
    /\ raised = "none"
    /\ inputfile = [doc |-> NoKeys, writes |-> 0]
    /\ rounds = 0

\* The state after cli.py:198 (OLD loaded), cli.py:199-205 (the template
\* regenerated the manifest) and cli.py:324-325 (NEW loaded, updated = 0).
InitWith(old, new) ==
    /\ pc = "loaded"
    /\ oldtoml = old
    /\ template = new
    /\ newtoml = new
    /\ updated = 0
    /\ raised = "none"
    /\ inputfile = [doc |-> new, writes |-> 0]
    /\ rounds = 0
    /\ DumpIdle
    /\ ListIdle

\* cli.py:326-374
MergeOldNew ==
    /\ pc = "loaded"
    /\ LET r == merge_old_new(oldtoml, inputfile)
       IN  /\ newtoml' = r.doc
           /\ updated' = r.updated
           /\ raised' = r.raised
           /\ inputfile' = r.file
    /\ pc' = "merged"
    /\ UNCHANGED <<oldtoml, template, rounds>>
    /\ UNCHANGED <<dvars, lvars>>

\* The merge run again, with the merged document as OLD and the same NEW
MergeAgain ==
    /\ pc = "merged"
    /\ raised = "none"
    /\ rounds < MaxRounds
    /\ LET r == merge_old_new(newtoml, [doc |-> template, writes |-> inputfile.writes])
       IN  /\ newtoml' = r.doc
           /\ updated' = r.updated
           /\ raised' = r.raised
           /\ inputfile' = r.file
    /\ oldtoml' = newtoml
    /\ rounds' = rounds + 1
    /\ UNCHANGED <<pc, template>>
    /\ UNCHANGED <<dvars, lvars>>

Next == MergeOldNew \/ MergeAgain

Init == \E old \in AnyShapeDocs, new \in AnyShapeDocs : InitWith(old, new)

Spec == Init /\ [][Next]_vars

InitDeps ==
    \E g \in 1..3, oo \in FewDeps, on \in FewDeps :
        \E old \in FocusDocs(g, oo), new \in FocusDocs(g, on) : InitWith(old, new)

SpecDeps == InitDeps /\ [][Next]_vars

InitScripts ==
    \E g \in 1..2, od \in FewDeps, nd \in FewDeps :
        \E oo \in Opt(FewScripts), no \in Opt(FewScripts) :
            \E old \in ScriptDocs(g, od, oo), new \in ScriptDocs(g, nd, no) :
                InitWith(old, new)

SpecScripts == InitScripts /\ [][Next]_vars

\* A document reconciled with itself
InitSelf == \E d \in SelfDocs : InitWith(d, d)

SpecSelf == InitSelf /\ [][Next]_vars

----------------------------------------------------------------------------
(* CustomEncoder.dump_list                                                  *)

\* Python values: an int, a list of values, a str (its characters)
IntVal(n) == [tag |-> "int", v |-> n]
ListVal(items) == [tag |-> "list", items |-> items]
StrVal(chars) == [tag |-> "str", chars |-> chars]

\* cli.py:438, separator=",\n"
separator == <<",", "\n">>

\* str(u) for what dump_value returns
StrOf(u) == IF u.tag = "int" THEN <<ToString(u.v)>> ELSE u.chars

RECURSIVE dump_list(_)
RECURSIVE ListPass(_, _, _)
RECURSIVE ListRounds(_, _)

\* TomlEncoder.dump_value: dump_funcs[int] returns the int itself,
\* dump_funcs[list] is self.dump_list and returns its string
dump_value(u) == IF u.tag = "list" THEN StrVal(dump_list(u.items)) ELSE u

\* cli.py:453-458, for u in t
ListPass(t, s, retval) ==
    IF t = <<>> THEN [s |-> s, retval |-> retval]
    ELSE LET u == Head(t)
         IN  IF u.tag = "list"
             THEN ListPass(Tail(t), s \o u.items, retval)
             ELSE ListPass(Tail(t), s, retval \o <<"    ">> \o StrOf(u) \o separator)

\* cli.py:451-459, while t != []
ListRounds(t, retval) ==
    IF t = <<>> THEN retval
    ELSE LET p == ListPass(t, <<>>, retval) IN ListRounds(p.s, p.retval)

\* cli.py:446-461
dump_list(v) ==
    ListRounds([i \in 1..Len(v) |-> dump_value(v[i])], <<"[", "\n">>) \o <<"]", "\n">>

Ints == {1, 2, 3, 4}
Elements == {IntVal(n) : n \in Ints}
                \cup {ListVal(l) : l \in Lists({IntVal(n) : n \in Ints}, MaxNested)}
Arrays == Lists(Elements, MaxArray)

\* encoder.dump_value(v) for an array v, reached from dump_sections (cli.py:477)
DumpList ==
    /\ lpc = "ready"
    /\ rendered' = dump_list(value)
    /\ lpc' = "rendered"
    /\ UNCHANGED value
    /\ UNCHANGED <<mvars, dvars>>

InitList ==
    /\ value \in Arrays
    /\ lpc = "ready"
    /\ rendered = <<>>
    /\ MergeIdle
    /\ DumpIdle

NextList == DumpList
SpecList == InitList /\ [][NextList]_vars

----------------------------------------------------------------------------
(* Documents given to dumps: table objects with ordered entries            *)

\* heap[t] is the ordered content of table object t; an entry is a scalar
\* (val its value) or a nested table (val the identity of the table object).
Root == 1
Keys == {"k", "p", "q"}
Entry(k, isTable, v) == [key |-> k, table |-> isTable, val |-> v]

IsTable(e) == e.table
IsScalar(e) == ~e.table

KeysOf(h, t) == {h[t][i].key : i \in 1..Len(h[t])}
TotalEntries(h) ==
    LET RECURSIVE Sum(_)
        Sum(n) == IF n = 0 THEN 0 ELSE Len(h[n]) + Sum(n - 1)
    IN  Sum(Len(h))

\* Text: a sequence of lines, each ended by a newline
HeaderLine(path) == [t |-> "header", path |-> path]
ScalarLine(k, v) == [t |-> "kv", key |-> k, val |-> v]
BlankLine == [t |-> "blank"]

\* TomlEncoder.dump_sections(o, sup) on a table of scalars and tables: the
\* "key = value" lines of its scalars and the ordered dict of its sub-tables
dump_sections(h, o) ==
    LET scalars == SelectSeq(h[o], IsScalar)
    IN  [body     |-> [i \in 1..Len(scalars) |-> ScalarLine(scalars[i].key, scalars[i].val)],
         sections |-> SelectSeq(h[o], IsTable)]

\* retval[-2:] != "\n\n"
EndsBlank(text) == text # <<>> /\ text[Len(text)] = BlankLine

\* cli.py:482-488: the object being dumped is one of its own sections
circular(o, sections) == \E i \in 1..Len(sections) : sections[i].val = o

Ok(text) == [err |-> "none", text |-> text]
Raise(e) == [err |-> e, text |-> <<>>]

RECURSIVE dumps(_, _, _, _)
RECURSIVE SectionLoop(_, _, _, _, _)
RECURSIVE SubLoop(_, _, _, _, _)

\* cli.py:499-504, for s in addtosections: retval += dumps(addtosections[s], prefix=p)
SubLoop(h, base, subs, retval, depth) ==
    IF subs = <<>> THEN Ok(retval)
    ELSE LET r == dumps(h, Head(subs).val, base \o <<Head(subs).key>>, depth + 1)
         IN  IF r.err # "none" THEN r
             ELSE SubLoop(h, base, Tail(subs), retval \o r.text, depth)

RECURSIVE DescendAll(_, _, _, _, _)
DescendAll(h, prefix, sections, retval, depth) ==
    IF sections = <<>> THEN Ok(retval)
    ELSE LET section == Head(sections)
             r == SubLoop(h, prefix \o <<section.key>>,
                          dump_sections(h, section.val).sections, retval, depth)
         IN  IF r.err # "none" THEN r
             ELSE DescendAll(h, prefix, Tail(sections), r.text, depth)

RECURSIVE HeadersOf(_, _, _, _)
HeadersOf(h, prefix, sections, retval) ==
    IF sections = <<>> THEN retval
    ELSE LET section == Head(sections)
             ds      == dump_sections(h, section.val)
             blank   == IF retval # <<>> /\ ~EndsBlank(retval)
                        THEN <<BlankLine>> ELSE <<>>
         IN  HeadersOf(h, prefix, Tail(sections),
                       IF ds.body # <<>> \/ ds.sections = <<>>
                       THEN retval \o blank
                               \o <<HeaderLine(prefix \o <<section.key>>)>> \o ds.body
                       ELSE retval)

\* The order of toml.dumps: the sections of one level are all written
\* before any of their sub-tables
SectionLoopGrouped(h, prefix, sections, retval, depth) ==
    DescendAll(h, prefix, sections, HeadersOf(h, prefix, sections, retval), depth)

\* cli.py:490-504, for section in sections
SectionLoop(h, prefix, sections, retval, depth) ==
    IF sections = <<>> THEN Ok(retval)
    ELSE LET section == Head(sections)
             ds      == dump_sections(h, section.val)
             emit    == ds.body # <<>> \/ ds.sections = <<>>
             blank   == IF retval # <<>> /\ ~EndsBlank(retval)
                        THEN <<BlankLine>> ELSE <<>>
             ret1    == IF emit
                        THEN retval \o blank
                                \o <<HeaderLine(prefix \o <<section.key>>)>> \o ds.body
                        ELSE retval
             r       == SubLoop(h, prefix \o <<section.key>>, ds.sections, ret1, depth)
         IN  IF r.err # "none" THEN r
             ELSE SectionLoop(h, prefix, Tail(sections), r.text, depth)

\* cli.py:464-506.  depth counts the nested calls of dumps; the interpreter
\* raises RecursionError past its limit.
dumps(h, o, prefix, depth) ==
    IF depth > RecursionLimit THEN Raise("RecursionError")
    ELSE LET ds   == dump_sections(h, o)
             ret0 == IF prefix # <<>> /\ ds.body # <<>>
                     THEN <<HeaderLine(prefix)>> \o ds.body
                     ELSE ds.body
         IN  IF circular(o, ds.sections) THEN Raise("Circular reference detected")
             ELSE SectionLoop(h, prefix, ds.sections, ret0, depth)

----------------------------------------------------------------------------
(* toml.loads: the document a text parses to, as a function from the path  *)
(* of each table to its ordered entries (val is 0 for a nested table)       *)

RECURSIVE EnsureTable(_, _, _)
\* "[a.b.c]": the tables of the path that do not exist yet are created, each
\* a new last key of its parent; the first i components exist already
EnsureTable(doc, path, i) ==
    IF i = Len(path) THEN doc
    ELSE LET parent == SubSeq(path, 1, i)
             child  == SubSeq(path, 1, i + 1)
         IN  IF child \in DOMAIN doc THEN EnsureTable(doc, path, i + 1)
             ELSE EnsureTable(
                     [doc EXCEPT ![parent] = Append(@, Entry(path[i + 1], TRUE, 0))]
                         @@ (child :> <<>>),
                     path, i + 1)

RECURSIVE LoadLines(_, _, _)
LoadLines(text, doc, current) ==
    IF text = <<>> THEN doc
    ELSE LET line == Head(text)
         IN  CASE line.t = "header" ->
                    LoadLines(Tail(text), EnsureTable(doc, line.path, 0), line.path)
               [] line.t = "kv" ->
                    LoadLines(Tail(text),
                              [doc EXCEPT ![current] =
                                    Append(@, Entry(line.key, FALSE, line.val))],
                              current)
               [] line.t = "blank" -> LoadLines(Tail(text), doc, current)

loads(text) == LoadLines(text, (<<>> :> <<>>), <<>>)

----------------------------------------------------------------------------
(* Serializing a document                                                   *)

Scalars == {1}

\* o[k] = v with v a scalar, as toml.load does for a "k = v" line
AddScalar ==
    /\ dpc = "build"
    /\ TotalEntries(heap) < MaxEntries
    /\ \E t \in DOMAIN heap, v \in Scalars :
         \E k \in Keys \ KeysOf(heap, t) :
            heap' = [heap EXCEPT ![t] = Append(@, Entry(k, FALSE, v))]
    /\ UNCHANGED <<dpc, out>>
    /\ UNCHANGED <<mvars, lvars>>

\* o[k] = a new empty table, as toml.load does for a "[...k]" header
AddTable ==
    /\ dpc = "build"
    /\ TotalEntries(heap) < MaxEntries
    /\ Len(heap) < MaxTables
    /\ \E t \in DOMAIN heap :
         \E k \in Keys \ KeysOf(heap, t) :
            heap' = Append([heap EXCEPT ![t] = Append(@, Entry(k, TRUE, Len(heap) + 1))],
                           <<>>)
    /\ UNCHANGED <<dpc, out>>
    /\ UNCHANGED <<mvars, lvars>>

\* o[k] = u for a table object u that is already part of the document
AddRef ==
    /\ dpc = "build"
    /\ TotalEntries(heap) < MaxEntries
    /\ \E t \in DOMAIN heap, u \in DOMAIN heap :
         \E k \in Keys \ KeysOf(heap, t) :
            heap' = [heap EXCEPT ![t] = Append(@, Entry(k, TRUE, u))]
    /\ UNCHANGED <<dpc, out>>
    /\ UNCHANGED <<mvars, lvars>>

\* dumps(o, CustomEncoder()), cli.py:374
Dumps ==
    /\ dpc = "build"
    /\ out' = dumps(heap, Root, <<>>, 1)
    /\ dpc' = "dumped"
    /\ UNCHANGED heap
    /\ UNCHANGED <<mvars, lvars>>

\* an empty root table, nothing dumped yet
InitDump ==
    /\ heap = << <<>> >>
    /\ dpc = "build"
    /\ out = [err |-> "none", text |-> <<>>]
    /\ MergeIdle
    /\ ListIdle

\* documents as toml.load builds them: every table has one parent
NextDump == AddTable \/ AddScalar \/ Dumps
SpecDump == InitDump /\ [][NextDump]_vars

\* documents as a caller of dumps can build them: shared and cyclic tables
NextGraph == AddScalar \/ AddTable \/ AddRef \/ Dumps
SpecGraph == InitDump /\ [][NextGraph]_vars

----------------------------------------------------------------------------
(* Properties of merge_old_new                                              *)

\* After the first merge: oldtoml is OLD, template is NEW as loaded,
\* newtoml is the merged document.
Merged == pc = "merged" /\ rounds = 0
InBoth(getter) == Getter(oldtoml, getter).ok /\ Getter(template, getter).ok
OldList(getter) == Getter(oldtoml, getter).val
NewList(getter) == Getter(template, getter).val
MergedList(getter) == Getter(newtoml, getter).val
NamesOf(list) == {list[i].name : i \in 1..Len(list)}

\* the NEW entries whose name occurs in OLD, in NEW's order
CommonOfNew(getter) ==
    LET names == NamesOf(OldList(getter))
        In(e) == e.name \in names
    IN  SelectSeq(NewList(getter), In)

\* the OLD entries whose name does not occur in NEW, in OLD's order
OnlyInOld(getter) ==
    LET names == NamesOf(NewList(getter))
        Out(e) == e.name \notin names
    IN  SelectSeq(OldList(getter), Out)

\* the entries of a list in the rendering str() gives a parsed requirement
Rendered(list) == [i \in 1..Len(list) |-> [list[i] EXCEPT !.raw = FALSE]]

ExpectedDeps(getter) ==
    (IF Len(CommonOfNew(getter)) = Len(NewList(getter))
     THEN NewList(getter)
     ELSE Rendered(CommonOfNew(getter)))
    \o Rendered(OnlyInOld(getter))

ExpectedCount(getter) ==
    IF ~InBoth(getter) THEN 0
    ELSE (IF Len(CommonOfNew(getter)) = Len(NewList(getter))
          THEN 0 ELSE Len(CommonOfNew(getter)))
         + Len(OnlyInOld(getter))

ExpectedUpdated ==
    ExpectedCount(DepGetters[1]) + ExpectedCount(DepGetters[2])
        + ExpectedCount(DepGetters[3])

DepIndex == 1..Len(DepGetters)
ScriptIndex == 1..Len(ScriptGetters)

C2_ChangeReported ==
    Merged =>
        /\ (updated > 0) <=> (newtoml # template)
        /\ (newtoml # template) => (inputfile.writes = 1 /\ inputfile.doc = newtoml)

\* C3: a script-entry field present in OLD and in NEW takes OLD's value when
\* the two differ and keeps its value when they are equal; the change count
\* is the one the dependency fields alone produce.
C3_ScriptsReplaced ==
    Merged =>
        /\ \A g \in ScriptIndex :
              InBoth(ScriptGetters[g]) =>
                  MergedList(ScriptGetters[g]) = OldList(ScriptGetters[g])
        /\ updated = ExpectedUpdated

C3_Witness ==
    /\ Merged
    /\ \E g \in ScriptIndex :
        /\ InBoth(ScriptGetters[g])
        /\ OldList(ScriptGetters[g]) # NewList(ScriptGetters[g])
        /\ Len(NewList(ScriptGetters[g])) > 1
        /\ Len(OldList(ScriptGetters[g])) > 0
        /\ MergedList(ScriptGetters[g]) = OldList(ScriptGetters[g])
    /\ updated = 0

\* C4: a document reconciled with itself gives change count 0 and a merged
\* document equal to NEW, and the file is not rewritten.
C4_SelfMerge ==
    (Merged /\ oldtoml = template) =>
        /\ updated = 0
        /\ newtoml = template
        /\ inputfile = [doc |-> template, writes |-> 0]

HasRepeatedName(list) ==
    \E i, j \in 1..Len(list) : i # j /\ list[i].name = list[j].name

C4_Witness ==
    /\ Merged
    /\ oldtoml = template
    /\ InBoth(DepGetters[1]) /\ HasRepeatedName(NewList(DepGetters[1]))
    /\ InBoth(DepGetters[2]) /\ NewList(DepGetters[2]) = <<>>

\* C5: a tracked field missing from OLD or from NEW at any depth raises no
\* error, is left as loaded and counts nothing, and every other tracked
\* field is merged as it would be without it.
C5_MissingSkipped ==
    Merged =>
        /\ raised = "none"
        /\ \A g \in DepIndex :
              IF InBoth(DepGetters[g])
              THEN MergedList(DepGetters[g]) = ExpectedDeps(DepGetters[g])
              ELSE Getter(newtoml, DepGetters[g]) = Getter(template, DepGetters[g])
        /\ \A g \in ScriptIndex :
              IF InBoth(ScriptGetters[g])
              THEN MergedList(ScriptGetters[g]) = OldList(ScriptGetters[g])
              ELSE Getter(newtoml, ScriptGetters[g]) = Getter(template, ScriptGetters[g])
        /\ updated = ExpectedUpdated

\* the first dependency field is missing, a later one and a script field
\* are still merged
C5_Witness ==
    /\ Merged
    /\ ~InBoth(DepGetters[1])
    /\ Getter(template, DepGetters[1]).ok
    /\ InBoth(DepGetters[3])
    /\ MergedList(DepGetters[3]) # NewList(DepGetters[3])
    /\ \E g \in ScriptIndex :
          InBoth(ScriptGetters[g]) /\ MergedList(ScriptGetters[g]) # NewList(ScriptGetters[g])
    /\ updated > 0

\* C10: merging again with the merged document as OLD and the same NEW
\* gives every dependency field the value the previous merge gave it.
C10_Converges ==
    (pc = "merged" /\ rounds >= 1) =>
        \A g \in DepIndex :
            InBoth(DepGetters[g]) => MergedList(DepGetters[g]) = OldList(DepGetters[g])

\* after a repeated merge a removed entry is still out, an added one still in
C10_Witness ==
    /\ pc = "merged"
    /\ rounds = MaxRounds
    /\ \E g \in DepIndex :
        /\ InBoth(DepGetters[g])
        /\ NamesOf(NewList(DepGetters[g])) \ NamesOf(MergedList(DepGetters[g])) # {}
        /\ NamesOf(MergedList(DepGetters[g])) \ NamesOf(NewList(DepGetters[g])) # {}
        /\ NamesOf(MergedList(DepGetters[g])) \cap NamesOf(NewList(DepGetters[g])) # {}

----------------------------------------------------------------------------
(* Properties of dumps                                                      *)

Dumped == dpc = "dumped"

TableEntries(h, t) == {h[t][i] : i \in {j \in 1..Len(h[t]) : h[t][j].table}}
Children(h, t) == {e.val : e \in TableEntries(h, t)}

\* the tables reachable from t in at least one step
RECURSIVE ReachFrom(_, _, _)
ReachFrom(h, front, seen) ==
    LET more == UNION {Children(h, t) : t \in front} \ seen
    IN  IF more = {} THEN seen ELSE ReachFrom(h, more, seen \cup more)
Descendants(h, t) == ReachFrom(h, {t}, {})

\* some table is its own descendant
HasCycle(h) == \E t \in DOMAIN h : t \in Descendants(h, t)
\* every table but the root has exactly one parent entry
IsTree(h) ==
    /\ ~HasCycle(h)
    /\ \A u \in DOMAIN h :
          Cardinality({<<t, i>> \in (DOMAIN h) \X (1..Cardinality(Keys)) :
                          i <= Len(h[t]) /\ h[t][i].table /\ h[t][i].val = u})
              = IF u = Root THEN 0 ELSE 1

RECURSIVE Resolve(_, _, _)
\* the table object at a path
Resolve(h, t, path) ==
    IF path = <<>> THEN t
    ELSE LET e == CHOOSE e \in TableEntries(h, t) : e.key = Head(path)
         IN  Resolve(h, e.val, Tail(path))

RECURSIVE PathsFrom(_, _, _)
PathsFrom(h, t, prefix) ==
    {prefix} \cup UNION {PathsFrom(h, e.val, prefix \o <<e.key>>) : e \in TableEntries(h, t)}

\* the document of a tree of tables, in the form loads gives
DocOf(h) ==
    [path \in PathsFrom(h, Root, <<>>) |->
        LET t == Resolve(h, Root, path)
        IN  [i \in 1..Len(h[t]) |->
                IF h[t][i].table THEN Entry(h[t][i].key, TRUE, 0) ELSE h[t][i]]]

\* C6: a document in which a table is its own descendant makes dumps fail
\* with the circular-reference error and return no text.
C6_CycleDetected ==
    (Dumped /\ HasCycle(heap)) =>
        (out.err = "Circular reference detected" /\ out.text = <<>>)

\* C7: for a document without cycles, parsing the text dumps returns gives
\* the document back: same tables, same keys and values, same key order.
C7_RoundTrip ==
    (Dumped /\ IsTree(heap)) =>
        (out.err = "none" /\ loads(out.text) = DocOf(heap))

\* the section headers of a text, in order
HeaderIndexes(text) == {i \in 1..Len(text) : text[i].t = "header"}
IsKey(h, prefix, k) ==
    prefix \in PathsFrom(h, Root, <<>>) /\ k \in KeysOf(h, Resolve(h, Root, prefix))
KeyPos(h, prefix, k) ==
    LET t == Resolve(h, Root, prefix)
    IN  CHOOSE i \in 1..Len(h[t]) : h[t][i].key = k

\* path a comes before path b in the depth-first order of the document: a
\* is an ancestor of b, or where they part a's key is the earlier one
IsPrefix(a, b) == Len(a) <= Len(b) /\ SubSeq(b, 1, Len(a)) = a
DepthFirstBefore(h, a, b) ==
    \/ (IsPrefix(a, b) /\ a # b)
    \/ \E n \in 1..Len(a) :
          /\ n <= Len(b)
          /\ SubSeq(a, 1, n - 1) = SubSeq(b, 1, n - 1)
          /\ a[n] # b[n]
          /\ IsKey(h, SubSeq(a, 1, n - 1), a[n])
          /\ IsKey(h, SubSeq(a, 1, n - 1), b[n])
          /\ KeyPos(h, SubSeq(a, 1, n - 1), a[n]) < KeyPos(h, SubSeq(a, 1, n - 1), b[n])

RECURSIVE BodyAt(_, _)
\* the "key = value" lines that follow line i up to the next other line
BodyAt(text, i) ==
    IF i + 1 <= Len(text) /\ text[i + 1].t = "kv"
    THEN <<text[i + 1]>> \o BodyAt(text, i + 1)
    ELSE <<>>

\* C8: sections come out in depth-first order of the document: each header
\* names a table of the document and is followed at once by that table's
\* own scalars, a table comes before its sub-tables, the whole subtree of a
\* table before its next sibling, siblings in key order.
C8_DepthFirstOrder ==
    (Dumped /\ IsTree(heap)) =>
        /\ out.err = "none"
        /\ BodyAt(out.text, 0) = dump_sections(heap, Root).body
        /\ \A i \in HeaderIndexes(out.text) :
              /\ out.text[i].path \in PathsFrom(heap, Root, <<>>)
              /\ BodyAt(out.text, i)
                    = dump_sections(heap, Resolve(heap, Root, out.text[i].path)).body
        /\ \A i, j \in HeaderIndexes(out.text) :
              i < j => DepthFirstBefore(heap, out.text[i].path, out.text[j].path)

\* a section two levels down is written before a later sibling of its
\* grandparent, and a table with a body is written before its sub-table
C8_Witness ==
    /\ Dumped
    /\ IsTree(heap)
    /\ \E i, j \in HeaderIndexes(out.text) :
          /\ i < j
          /\ Len(out.text[i].path) >= 2
          /\ Len(out.text[j].path) = 1
    /\ \E i, j \in HeaderIndexes(out.text) :
          /\ i < j
          /\ IsPrefix(out.text[i].path, out.text[j].path)
          /\ BodyAt(out.text, i) # <<>>

----------------------------------------------------------------------------
(* Properties of dump_list                                                  *)

RECURSIVE SplitLines(_, _)
\* the lines of a string, each without its newline
SplitLines(chars, line) ==
    IF chars = <<>> THEN (IF line = <<>> THEN <<>> ELSE <<line>>)
    ELSE IF Head(chars) = "\n" THEN <<line>> \o SplitLines(Tail(chars), <<>>)
         ELSE SplitLines(Tail(chars), Append(line, Head(chars)))

RECURSIVE Flatten(_)
\* the ints of an array, nested arrays opened in place, left to right
Flatten(v) ==
    IF v = <<>> THEN <<>>
    ELSE (IF Head(v).tag = "list" THEN Flatten(Head(v).items) ELSE <<Head(v).v>>)
            \o Flatten(Tail(v))

ElementLines(v) == [i \in 1..Len(Flatten(v)) |-> <<"    ", ToString(Flatten(v)[i]), ",">>]

\* C9: an array is rendered as one bracketed block with one element per
\* line, each ended by the separator, nested arrays flattened in order.
C9_OneElementPerLine ==
    lpc = "rendered" =>
        SplitLines(rendered, <<>>) = << <<"[">> >> \o ElementLines(value) \o << <<"]">> >>

====
